---------------------------- MODULE Spec2Model ----------------------------
(***************************************************************************)
(* Inventory and ordering data layer of the operating-room inventory app:  *)
(* src/database.py (the SQLite repository) and the search flow of          *)
(* src/app.py.                                                             *)
(*                                                                         *)
(* Text values are sequences of characters, one string per character.      *)
(* A character outside ASCII is written by its code point ("u30E1").       *)
(***************************************************************************)
EXTENDS Integers, Sequences, FiniteSets, TLC

VARIABLES
    schema,         \* TRUE once the two CREATE TABLE statements have run
    products,       \* the products table, rows in rowid order
    orders,         \* the orders table, rows in rowid order
    clock,          \* CURRENT_TIMESTAMP, in whole seconds
    seed_prints,    \* how many times seed_data has printed its message
    last,           \* the last repository call that returned or raised
    pc,             \* per session: where its update_stock call stands
    call,           \* per session: the arguments of its update_stock call
    txn,            \* per session: the row its open transaction has written
    writer,         \* the session holding the database write lock, 0 if none
    completed,      \* per product id: the sum of the changes of the calls that returned
    ncalls,         \* how many update_stock calls have been made
    search_query,   \* the text typed in the search box
    target_product  \* the product the search flow resolved

vars == <<schema, products, orders, clock, seed_prints, last, pc, call, txn,
          writer, completed, ncalls, search_query, target_product>>

repo_vars == <<schema, products, orders, clock, seed_prints, last>>
session_vars == <<pc, call, txn, writer>>
stock_vars == <<completed, ncalls>>
ui_vars == <<search_query, target_product>>

(***************************************************************************)
(* Bounds of the model.                                                    *)
(***************************************************************************)
MaxOrders == 2
MaxClock == 1
NumSessions == 2
MaxCalls == 2
MaxInserts == 2
MaxQueryLen == 2

(***************************************************************************)
(* Values.                                                                 *)
(***************************************************************************)
NULL == <<"<NULL>">>
NoProduct == [id |-> 0]
NoArgs == [id |-> 0, change |-> 0]
NullText == "<NULL>"
NoCall == [op |-> "none", id |-> 0, raised |-> "no"]

sample_products == <<
    [name |-> <<"N", "o", ".", "1", "1", " ", "u30E1", "u30B9", "u5203">>,
     manufacturer |-> "u30D5u30A7u30B6u30FC",
     barcode |-> <<"4","9","0","2","4","7","0","0","3","6","6","4","7">>,
     stock |-> 100, expiry |-> "now+365d", min_stock |-> 20],
    [name |-> <<"3", "-", "0", " ", "u30CA", "u30A4", "u30ED", "u30F3", "u7CF8">>,
     manufacturer |-> "u30A8u30C1u30B3u30F3",
     barcode |-> <<"1","0","3","0","0","1">>,
     stock |-> 3, expiry |-> "now+100d", min_stock |-> 10],
    [name |-> <<"4", "-", "0", " ", "u30D0", "u30A4", "u30AF", "u30EA", "u30EB">>,
     manufacturer |-> "u30A8u30C1u30B3u30F3",
     barcode |-> <<"1","0","4","0","0","2">>,
     stock |-> 50, expiry |-> "now+200d", min_stock |-> 10],
    [name |-> <<"u30B9", "u30C6", "u30FC", "u30D7", "u30E9", "u30FC", " ", "3", "5", "W">>,
     manufacturer |-> "3M",
     barcode |-> <<"8","8","8","8","8","8">>,
     stock |-> 2, expiry |-> "now+50d", min_stock |-> 5],
    [name |-> <<"u5438", "u53CE", "u6027", "u6B62", "u8840", "u6750">>,
     manufacturer |-> "u30B8u30E7u30F3u30BDu30F3",
     barcode |-> <<"9","9","9","9","9","9">>,
     stock |-> 0, expiry |-> "2024-12-31", min_stock |-> 5] >>

(***************************************************************************)
(* The products table.                                                     *)
(***************************************************************************)
ProductIds(tbl) == {tbl[i].id : i \in 1..Len(tbl)}

\* The barcode column declared without UNIQUE.
BarcodeUniqueOK_NoConstraint(tbl, row) == TRUE

\* barcode TEXT UNIQUE: a row may be stored when its barcode is NULL or no
\* stored row has it.
BarcodeUniqueOK(tbl, row) ==
    \/ row.barcode = NULL
    \/ \A i \in 1..Len(tbl) : tbl[i].barcode # row.barcode

\* id INTEGER PRIMARY KEY AUTOINCREMENT; no row is ever deleted, so the next
\* id is one past the number of rows.
NextId(tbl) == Len(tbl) + 1

\* INSERT INTO products (name, manufacturer, barcode, stock, expiry, min_stock)
InsertProduct(tbl, row) ==
    Append(tbl, [id |-> NextId(tbl), name |-> row.name,
                 manufacturer |-> row.manufacturer, barcode |-> row.barcode,
                 stock |-> row.stock, expiry |-> row.expiry,
                 min_stock |-> row.min_stock])

RECURSIVE InsertMany(_, _)
\* executemany: the rows one after another, in one transaction.  ok is FALSE
\* when a row breaks a constraint (sqlite3.IntegrityError).
InsertMany(tbl, rows) ==
    IF rows = <<>> THEN [ok |-> TRUE, tbl |-> tbl]
    ELSE IF ~BarcodeUniqueOK(tbl, Head(rows)) THEN [ok |-> FALSE, tbl |-> tbl]
    ELSE InsertMany(InsertProduct(tbl, Head(rows)), Tail(rows))

seed_data(tbl) == InsertMany(tbl, sample_products)

\* Seeding on every call, whatever the table holds.
NeedsSeed_Always(tbl) == TRUE

\* SELECT count(*) FROM products ... == 0
NeedsSeed(tbl) == Len(tbl) = 0

(***************************************************************************)
(* Arguments the calls are made with.                                      *)
(***************************************************************************)
MissingId == Len(sample_products) + 1
IdArgs == {1, MissingId}
OrderIdArgs == {2, MissingId}
Quantities == {0, 5}
Changes == {-5, 5}
Sessions == 1..NumSessions

(***************************************************************************)
(* The orders table.                                                       *)
(***************************************************************************)
\* sqlite3.connect(DB_FILE) issues no PRAGMA foreign_keys = ON, and SQLite
\* leaves foreign keys unenforced unless a connection asks for them.
ForeignKeysOn == FALSE

\* The quantity left to the function's default of 1.
OrderRow_DefaultQuantity(tbl, product_id, quantity, now) ==
    [id |-> Len(tbl) + 1, product_id |-> product_id, quantity |-> 1,
     status |-> "pending", created_at |-> now]

\* INSERT INTO orders (product_id, quantity): id by AUTOINCREMENT, status and
\* created_at by their defaults.
OrderRow(tbl, product_id, quantity, now) ==
    [id |-> Len(tbl) + 1, product_id |-> product_id, quantity |-> quantity,
     status |-> "pending", created_at |-> now]

\* DELETE FROM orders WHERE status = 'pending'
MarkOrdered_Delete(tbl) ==
    SelectSeq(tbl, LAMBDA o : o.status # "pending")

\* UPDATE orders SET status = 'ordered' WHERE status = 'pending'
MarkOrdered(tbl) ==
    [i \in 1..Len(tbl) |->
        IF tbl[i].status = "pending" THEN [tbl[i] EXCEPT !.status = "ordered"]
        ELSE tbl[i]]

\* stock = ? : the change written over the stock.
NewStock_Overwrite(stock, change) == change

\* stock = stock + ?
NewStock(stock, change) == stock + change

\* UPDATE products SET stock = stock + ? with the WHERE clause left out.
StockUpdated_NoWhere(tbl, product_id, change) ==
    [i \in 1..Len(tbl) |-> [tbl[i] EXCEPT !.stock = NewStock(@, change)]]

\* UPDATE products SET stock = stock + ? WHERE id = ?
StockUpdated(tbl, product_id, change) ==
    [i \in 1..Len(tbl) |->
        IF tbl[i].id = product_id
        THEN [tbl[i] EXCEPT !.stock = NewStock(@, change)]
        ELSE tbl[i]]

\* The join with the WHERE o.status = 'pending' clause left out.
OrderViews_AllStatuses ==
    {[id |-> orders[i].id, name |-> products[j].name,
      manufacturer |-> products[j].manufacturer,
      quantity |-> orders[i].quantity, status |-> orders[i].status,
      created_at |-> orders[i].created_at] :
        <<i, j>> \in {ij \in (1..Len(orders)) \X (1..Len(products)) :
                        orders[ij[1]].product_id = products[ij[2]].id}}

\* The rows of get_orders: pending orders joined with their product.  An
\* order whose product_id matches no product drops out of the inner join.
OrderViews ==
    {[id |-> orders[i].id, name |-> products[j].name,
      manufacturer |-> products[j].manufacturer,
      quantity |-> orders[i].quantity, status |-> orders[i].status,
      created_at |-> orders[i].created_at] :
        <<i, j>> \in {ij \in (1..Len(orders)) \X (1..Len(products)) :
                        /\ orders[ij[1]].status = "pending"
                        /\ orders[ij[1]].product_id = products[ij[2]].id}}

\* ORDER BY o.created_at DESC: every arrangement of the rows in which
\* created_at never increases.  SQL leaves the order of rows with equal
\* created_at open, so get_orders is the set of results the query may give.
get_orders ==
    {r \in [1..Cardinality(OrderViews) -> OrderViews] :
        /\ \A i, j \in DOMAIN r : i # j => r[i] # r[j]
        /\ \A i, j \in DOMAIN r : i < j => r[i].created_at >= r[j].created_at}

\* SELECT * FROM products WHERE barcode = ? ; fetchone()
get_product_by_barcode(barcode) ==
    LET hits == {i \in 1..Len(products) : products[i].barcode = barcode}
    IN  IF hits = {} \/ barcode = NULL THEN NoProduct
        ELSE products[CHOOSE i \in hits : \A k \in hits : i <= k]

(***************************************************************************)
(* Repository calls, each one transaction.                                 *)
(***************************************************************************)
Init ==
    /\ schema = FALSE
    /\ products = <<>>
    /\ orders = <<>>
    /\ clock = 0
    /\ seed_prints = 0
    /\ last = NoCall
    /\ pc = [s \in Sessions |-> "idle"]
    /\ call = [s \in Sessions |-> NoArgs]
    /\ txn = [s \in Sessions |-> <<>>]
    /\ writer = 0
    /\ completed = [id \in IdArgs |-> 0]
    /\ ncalls = 0
    /\ search_query = <<>>
    /\ target_product = NoProduct

\* app.py runs init_db() at the top of every script run.
init_db ==
    /\ writer = 0
    /\ schema' = TRUE
    /\ IF NeedsSeed(products)
       THEN LET r == seed_data(products)
            IN  IF r.ok
                THEN /\ products' = r.tbl
                     /\ seed_prints' = seed_prints + 1
                     /\ last' = [NoCall EXCEPT !.op = "init_db"]
                ELSE /\ UNCHANGED <<products, seed_prints>>
                     /\ last' = [NoCall EXCEPT !.op = "init_db",
                                               !.raised = "IntegrityError"]
       ELSE /\ UNCHANGED <<products, seed_prints>>
            /\ last' = [NoCall EXCEPT !.op = "init_db"]
    /\ UNCHANGED <<orders, clock>>
    /\ UNCHANGED <<session_vars, stock_vars, ui_vars>>

update_stock(product_id, change) ==
    /\ schema
    /\ writer = 0
    /\ ncalls < MaxCalls
    /\ products' = StockUpdated(products, product_id, change)
    /\ ncalls' = ncalls + 1
    /\ completed' = [completed EXCEPT ![product_id] = @ + change]
    /\ last' = [op |-> "update_stock", id |-> product_id, raised |-> "no"]
    /\ UNCHANGED <<schema, orders, clock, seed_prints>>
    /\ UNCHANGED <<session_vars, ui_vars>>

add_to_order_list(product_id, quantity) ==
    /\ schema
    /\ writer = 0
    /\ Len(orders) < MaxOrders
    /\ IF ForeignKeysOn /\ product_id \notin ProductIds(products)
       THEN /\ UNCHANGED orders
            /\ last' = [op |-> "add_to_order_list", id |-> product_id,
                        raised |-> "IntegrityError"]
       ELSE /\ orders' = Append(orders, OrderRow(orders, product_id, quantity, clock))
            /\ last' = [op |-> "add_to_order_list", id |-> product_id,
                        raised |-> "no"]
    /\ UNCHANGED <<schema, products, clock, seed_prints>>
    /\ UNCHANGED <<session_vars, stock_vars, ui_vars>>

clear_orders ==
    /\ schema
    /\ writer = 0
    /\ orders' = MarkOrdered(orders)
    /\ last' = [NoCall EXCEPT !.op = "clear_orders"]
    /\ UNCHANGED <<schema, products, clock, seed_prints>>
    /\ UNCHANGED <<session_vars, stock_vars, ui_vars>>

\* A second passes: CURRENT_TIMESTAMP has a resolution of one second.
Tick ==
    /\ clock < MaxClock
    /\ clock' = clock + 1
    /\ UNCHANGED <<schema, products, orders, seed_prints, last>>
    /\ UNCHANGED <<session_vars, stock_vars, ui_vars>>

Next ==
    \/ init_db
    \/ \E id \in IdArgs, change \in Changes : update_stock(id, change)
    \/ \E id \in OrderIdArgs, q \in Quantities : add_to_order_list(id, q)
    \/ clear_orders
    \/ Tick

Spec == Init /\ [][Next]_vars

(***************************************************************************)
(* update_stock step by step, called from several sessions at once: each   *)
(* Streamlit session runs the script, and so the button handler, in a      *)
(* thread of its own.                                                      *)
(***************************************************************************)
\* The UPDATE needs the database's write lock, which one connection holds
\* from its first write to its commit.
CanWrite(s) == writer = 0

\* conn = sqlite3.connect(DB_FILE); c = conn.cursor()
us_connect(s, product_id, change) ==
    /\ schema
    /\ pc[s] = "idle"
    /\ ncalls < MaxCalls
    /\ pc' = [pc EXCEPT ![s] = "connected"]
    /\ call' = [call EXCEPT ![s] = [id |-> product_id, change |-> change]]
    /\ ncalls' = ncalls + 1
    /\ UNCHANGED <<repo_vars, txn, writer, completed, ui_vars>>

\* c.execute("UPDATE ..."): the statement runs in the connection's own
\* transaction, on the table as committed.
us_execute(s) ==
    /\ pc[s] = "connected"
    /\ CanWrite(s)
    /\ writer' = s
    /\ txn' = [txn EXCEPT ![s] = StockUpdated(products, call[s].id, call[s].change)]
    /\ pc' = [pc EXCEPT ![s] = "executed"]
    /\ UNCHANGED <<repo_vars, call, completed, ncalls, ui_vars>>

\* c.execute("UPDATE ...") while another connection holds the write lock for
\* longer than the connection's timeout: sqlite3.OperationalError.
us_busy(s) ==
    /\ pc[s] = "connected"
    /\ writer # 0
    /\ pc' = [pc EXCEPT ![s] = "idle"]
    /\ call' = [call EXCEPT ![s] = NoArgs]
    /\ last' = [op |-> "update_stock", id |-> call[s].id,
                raised |-> "OperationalError"]
    /\ UNCHANGED <<schema, products, orders, clock, seed_prints>>
    /\ UNCHANGED <<txn, writer, completed, ncalls, ui_vars>>

\* conn.commit(); conn.close()
us_commit(s) ==
    /\ pc[s] = "executed"
    /\ products' = txn[s]
    /\ writer' = 0
    /\ txn' = [txn EXCEPT ![s] = <<>>]
    /\ pc' = [pc EXCEPT ![s] = "idle"]
    /\ completed' = [completed EXCEPT ![call[s].id] = @ + call[s].change]
    /\ call' = [call EXCEPT ![s] = NoArgs]
    /\ last' = [op |-> "update_stock", id |-> call[s].id, raised |-> "no"]
    /\ UNCHANGED <<schema, orders, clock, seed_prints, ncalls, ui_vars>>

NextConc ==
    \/ init_db
    \/ \E s \in Sessions, id \in IdArgs, change \in Changes : us_connect(s, id, change)
    \/ \E s \in Sessions : us_execute(s)
    \/ \E s \in Sessions : us_busy(s)
    \/ \E s \in Sessions : us_commit(s)

SpecConc == Init /\ [][NextConc]_vars

(***************************************************************************)
(* The search flow of the second tab, over a catalogue that INSERTs may    *)
(* have extended.                                                          *)
(***************************************************************************)
InsertNames == {<<"n", "o">>, <<"1", "0">>}
InsertBarcodes == {NULL, <<"N", "o">>, <<"1","0","3","0","0","1">>}
QueryChars == {"n", ".", "1", "0"}

\* The texts of 1 to n characters over QueryChars.
ShortTexts(n) == UNION {[1..k -> QueryChars] : k \in 1..n}

\* What is typed or scanned: a short text, or the barcode of a stored product.
QueryArgs ==
    ShortTexts(MaxQueryLen) \cup
        ({products[i].barcode : i \in 1..Len(products)} \ {NULL})

\* re.IGNORECASE folds the letters; the other characters are themselves.
Lower(c) ==
    CASE c = "N" -> "n"
      [] c = "O" -> "o"
      [] c = "W" -> "w"
      [] OTHER -> c

\* One pattern character against one character of the name, as re matches
\* them with IGNORECASE: "." matches any character, any other character of
\* QueryChars matches itself.
CharMatches(pat, c) == pat = "." \/ Lower(pat) = Lower(c)

\* Series.str.contains(query, case=False, na=False): regex defaults to True,
\* so the query is searched for as a regular expression.
NameContains(name, query) ==
    \E p \in 1..(Len(name) - Len(query) + 1) :
        \A k \in 1..Len(query) : CharMatches(query[k], name[p + k - 1])

\* SELECT * FROM products: the rows in rowid order.
get_inventory == products

\* target_product of the manual search.
SearchFlow(query) ==
    IF query = <<>> THEN NoProduct
    ELSE LET hit == get_product_by_barcode(query)
         IN  IF hit # NoProduct THEN hit
             ELSE LET all_products == get_inventory
                      filtered == {i \in 1..Len(all_products) :
                                     NameContains(all_products[i].name, query)}
                  IN  IF filtered = {} THEN NoProduct
                      ELSE all_products[CHOOSE i \in filtered :
                                            \A k \in filtered : i <= k]

search(query) ==
    /\ schema
    /\ search_query' = query
    /\ target_product' = SearchFlow(query)
    /\ last' = [NoCall EXCEPT !.op = "search"]
    /\ UNCHANGED <<schema, products, orders, clock, seed_prints>>
    /\ UNCHANGED <<session_vars, stock_vars>>

\* INSERT INTO products, as seed_data issues it, of a row of any name and
\* barcode; the columns left out take the defaults of the table.
insert_product(name, barcode) ==
    /\ schema
    /\ Len(products) < Len(sample_products) + MaxInserts
    /\ LET row == [name |-> name, manufacturer |-> NullText, barcode |-> barcode,
                   stock |-> 0, expiry |-> NullText, min_stock |-> 5]
       IN  IF BarcodeUniqueOK(products, row)
           THEN /\ products' = InsertProduct(products, row)
                /\ last' = [NoCall EXCEPT !.op = "insert_product"]
           ELSE /\ UNCHANGED products
                /\ last' = [NoCall EXCEPT !.op = "insert_product",
                                          !.raised = "IntegrityError"]
    /\ UNCHANGED <<schema, orders, clock, seed_prints>>
    /\ UNCHANGED <<session_vars, stock_vars, ui_vars>>

NextCatalog ==
    \/ init_db
    \/ \E name \in InsertNames, barcode \in InsertBarcodes : insert_product(name, barcode)
    \/ \E query \in QueryArgs : search(query)

SpecCatalog == Init /\ [][NextCatalog]_vars

(***************************************************************************)
(* Properties of the repository calls.                                     *)
(***************************************************************************)
Range(f) == {f[i] : i \in DOMAIN f}

\* The entries some result of get_orders holds.
Listed == UNION {Range(r) : r \in get_orders}

ProductById(id) == products[CHOOSE i \in 1..Len(products) : products[i].id = id]

\* C1: every row of the orders table has the product_id of a row of the
\* products table.
C1_OrdersReferenceProducts ==
    \A i \in 1..Len(orders) : orders[i].product_id \in ProductIds(products)

\* C2: no step removes an order row or changes its id, and a status changes
\* only from pending to ordered.
C2_StatusOnlyAdvances ==
    [][/\ Len(orders') >= Len(orders)
       /\ \A i \in 1..Len(orders) :
            /\ orders'[i].id = orders[i].id
            /\ orders'[i].status \in {"pending", "ordered"}
            /\ orders'[i].status # orders[i].status
                => orders[i].status = "pending" /\ orders'[i].status = "ordered"]_vars

C2_Witness ==
    /\ last.op = "init_db"
    /\ \E i, j \in 1..Len(orders) :
        i < j /\ orders[i].status = "ordered" /\ orders[j].status = "pending"

\* C3: clear_orders does not raise, leaves every pending order ordered and
\* the number of order rows as it was, and get_orders then returns the empty
\* sequence.
C3_ClearOrders ==
    [][clear_orders =>
        /\ last'.raised = "no"
        /\ Len(orders') = Len(orders)
        /\ \A i \in 1..Len(orders) :
            orders[i].status = "pending" => orders'[i].status = "ordered"
        /\ get_orders' = {<<>>}]_vars

C3_Witness ==
    /\ last.op = "clear_orders"
    /\ \E i \in 1..Len(orders) :
        orders[i].status = "ordered" /\ orders[i].product_id \in ProductIds(products)

\* C4: after add_to_order_list(pid, q) for a product pid of the store,
\* get_orders lists every entry it listed before and exactly one more, which
\* has quantity q, status pending and the name and manufacturer of pid.
C4_AddToOrderList ==
    [][\A pid \in OrderIdArgs, q \in Quantities :
        (add_to_order_list(pid, q) /\ pid \in ProductIds(products)) =>
            LET new == Listed' \ Listed
            IN  /\ Listed \subseteq Listed'
                /\ Cardinality(new) = 1
                /\ \A v \in new :
                    /\ v.quantity = q
                    /\ v.status = "pending"
                    /\ v.name = ProductById(pid).name
                    /\ v.manufacturer = ProductById(pid).manufacturer]_vars

C4_Witness ==
    /\ last.op = "add_to_order_list"
    /\ last.id \in ProductIds(products)
    /\ Cardinality(Listed) >= 2

\* C5: in every result of get_orders an order created later (a larger id)
\* stands before an order created earlier.
C5_NewestFirst ==
    \A r \in get_orders :
        \A i, j \in DOMAIN r : i < j => r[i].id > r[j].id

\* C7: update_stock with an id that matches no product does not raise and
\* leaves the products and orders tables as they were.
C7_UpdateStockUnknownId ==
    [][\A id \in IdArgs, change \in Changes :
        (update_stock(id, change) /\ id \notin ProductIds(products)) =>
            /\ last'.raised = "no"
            /\ products' = products
            /\ orders' = orders
            /\ schema' = schema]_vars

C7_Witness ==
    /\ last.op = "update_stock"
    /\ last.id \notin ProductIds(products)
    /\ products # <<>>
    /\ orders # <<>>

\* C10: init_db on a non-empty products table does not raise and leaves the
\* products and orders tables as they were; seed_data runs only on an empty
\* products table, and at most once.
C10_InitIdempotent ==
    /\ [](seed_prints <= 1)
    /\ [][init_db /\ products # <<>> =>
            /\ last'.raised = "no"
            /\ products' = products
            /\ orders' = orders
            /\ seed_prints' = seed_prints]_vars
    /\ [][seed_prints' # seed_prints => products = <<>>]_vars

C10_Witness ==
    /\ last.op = "init_db"
    /\ seed_prints = 1
    /\ \E i \in 1..Len(products) : products[i].stock # sample_products[i].stock
    /\ orders # <<>>

\* C6: once every update_stock call has returned, the stock of a product is
\* its seeded stock plus the sum of the changes of the calls that returned,
\* whatever the interleaving of the sessions.
C6_NoLostUpdate ==
    (\A s \in Sessions : pc[s] = "idle") =>
        \A id \in IdArgs \cap ProductIds(products) :
            ProductById(id).stock = sample_products[id].stock + completed[id]

C6_Witness ==
    /\ \A s \in Sessions : pc[s] = "idle"
    /\ ncalls = 2
    /\ completed[1] = 10
    /\ last.op = "update_stock"

\* A literal, case-insensitive substring.
LiteralContains(name, query) ==
    \E p \in 1..(Len(name) - Len(query) + 1) :
        \A k \in 1..Len(query) : Lower(query[k]) = Lower(name[p + k - 1])

\* The product the search is to resolve: the one whose barcode is the query,
\* else the first in id order whose name contains the query literally.
LiteralResult(query) ==
    LET byBarcode == {i \in 1..Len(products) :
                        products[i].barcode = query /\ query # NULL}
        byName == {i \in 1..Len(products) : LiteralContains(products[i].name, query)}
    IN  IF byBarcode # {} THEN products[CHOOSE i \in byBarcode : TRUE]
        ELSE IF byName # {}
             THEN products[CHOOSE i \in byName : \A k \in byName : i <= k]
             ELSE NoProduct

\* C8: no two products share a barcode that is not NULL, get_product_by_barcode
\* returns each product for its own barcode, and an INSERT of a barcode a
\* stored product has raises IntegrityError and stores nothing.
C8_BarcodeUnique ==
    /\ [](\A i, j \in 1..Len(products) :
            (i # j /\ products[i].barcode # NULL)
                => products[i].barcode # products[j].barcode)
    /\ [](\A i \in 1..Len(products) :
            products[i].barcode # NULL
                => get_product_by_barcode(products[i].barcode) = products[i])
    /\ [][\A name \in InsertNames, barcode \in InsertBarcodes :
            (/\ insert_product(name, barcode)
             /\ barcode # NULL
             /\ \E i \in 1..Len(products) : products[i].barcode = barcode)
                => last'.raised = "IntegrityError" /\ products' = products]_vars

C8_Witness ==
    /\ last.op = "insert_product"
    /\ last.raised = "IntegrityError"
    /\ Len(products) > Len(sample_products)

\* C9: for a non-empty query the search resolves the product whose barcode
\* is the query, else the first product in id order whose name contains the
\* query as a case-insensitive literal substring, else none.
C9_SearchResolves ==
    (last.op = "search" /\ search_query # <<>>)
        => target_product = LiteralResult(search_query)

=============================================================================
